---- MODULE Spec2Model ----
(***************************************************************************)
(* State-machine model of mdslib's DeviceAlias (devicealias.py) and Zone   *)
(* (zone.py) managers talking to a switch through the transport            *)
(* collaborator's show()/config().                                         *)
(*                                                                         *)
(* Text (commands, device messages, mode values) is a sequence of string   *)
(* tokens; a token is a word, a known phrase or a single character.        *)
(* "x in text" is contiguous-subsequence containment, str.lower() maps the *)
(* single-character tokens, str.replace() rewrites token runs.             *)
(* Python values whose type the code tests are records tagged with "type". *)
(***************************************************************************)
EXTENDS Integers, Sequences, FiniteSets, TLC

(* ------------------------------ bounds -------------------------------- *)
\* longest name->pwwn dict handed to DeviceAlias.create
MaxBatch == 2
\* most rows in the device's "show device-alias database" table
MaxEntries == 2

(* --------------------------- python values ---------------------------- *)
None == [type |-> "NoneType"]
PyBool(b) == [type |-> "bool", val |-> b]
PyInt(n) == [type |-> "int", val |-> n]
PyStr(t) == [type |-> "str", val |-> t]
PyDict(d) == [type |-> "dict", val |-> d]
PyList(l) == [type |-> "list", val |-> l]
\* what config() hands back for a command the device answered with text
Msg(m) == [type |-> "dict", msg |-> m]

\* Python truthiness of the values the code tests with "if x:"
Truthy(v) ==
  CASE v.type = "NoneType" -> FALSE
    [] v.type = "bool" -> v.val
    [] v.type = "int" -> v.val # 0
    [] v.type = "str" -> v.val # <<>>
    [] v.type = "list" -> v.val # <<>>
    [] OTHER -> TRUE

(* -------------------------------- text -------------------------------- *)
UpperChars == <<"A","B","C","D","E","F","G","H","I","J","K","L","M",
                "N","O","P","Q","R","S","T","U","V","W","X","Y","Z">>
LowerChars == <<"a","b","c","d","e","f","g","h","i","j","k","l","m",
                "n","o","p","q","r","s","t","u","v","w","x","y","z">>

LowerChar(c) ==
  IF \E k \in DOMAIN UpperChars : UpperChars[k] = c
    THEN LowerChars[CHOOSE k \in DOMAIN UpperChars : UpperChars[k] = c]
    ELSE c

\* str.lower()
Lower(s) == [k \in DOMAIN s |-> LowerChar(s[k])]

\* "pat in text"
Contains(text, pat) ==
  \E k \in 0..(Len(text) - Len(pat)) :
    \A j \in 1..Len(pat) : text[k + j] = pat[j]

RECURSIVE Replace(_, _, _)
\* text.replace(old, new): every non-overlapping occurrence, left to right
Replace(text, old, new) ==
  IF Len(text) < Len(old) \/ old = <<>> THEN text
  ELSE IF SubSeq(text, 1, Len(old)) = old
    THEN new \o Replace(SubSeq(text, Len(old) + 1, Len(text)), old, new)
    ELSE <<Head(text)>> \o Replace(Tail(text), old, new)

\* str(int) for the vsan ids in use
\* msg.strip("\n").strip(): leading and trailing white space is dropped
Strip(text) ==
  LET kept == {k \in DOMAIN text : text[k] \notin {" ", "\n"}} IN
  IF kept = {} THEN <<>>
  ELSE SubSeq(text, CHOOSE a \in kept : \A b \in kept : a <= b,
                    CHOOSE a \in kept : \A b \in kept : a >= b)

Str(n) == <<"0","1","2","3","4","5","6","7","8","9">>[n + 1]

(* ------------------------------ constants ----------------------------- *)
ENHANCED == <<"e","n","h","a","n","c","e","d">>
BASIC == <<"b","a","s","i","c">>
PERMIT == <<"p","e","r","m","i","t">>
DENY == <<"d","e","n","y">>

(* -------------------------------- errors ------------------------------ *)
CLIError(command, message) ==
  [kind |-> "CLIError", command |-> command, message |-> message]
Raise(kind, message) ==
  [kind |-> kind, command |-> <<>>, message |-> message]
Return(value) ==
  [kind |-> "return", value |-> value]

(* ----------------------- transport and device ------------------------- *)
\* seconds slept after a "Commit in progress" answer
CommitWait == 5
\* seconds slept before the zone lock or mode is re-read
ZoneWait == 2

Show(cmd) == [kind |-> "show", cmd |-> cmd, ans |-> None]
Config(cmd, ans) == [kind |-> "config", cmd |-> cmd, ans |-> ans]
Sleep(n) == [kind |-> "sleep", cmd |-> <<Str(n)>>, ans |-> None]

Names == {"dev1", "dev2", "dev3"}
Pwwns == {"21:00:00:0e:1e:30:34:a5", "21:00:00:0e:1e:30:3c:c5"}
\* rows of the device's database, and the pwwn create() is handed for a name
DbNames == {"dev1", "dev2"}

\* the phrases devicealias.py looks for in a device message
AlreadyPresent == "Device Alias already present"
SamePwwn == "Another device-alias already present with the same pwwn"
NoPendingChanges == "There are no pending changes"
EnhZoneMember == "Device-alias enhanced zone member present"
CommitInProgress == "Commit in progress. Check the status."

\* answers of the device to a device-alias configuration command
DAConfigAnswers ==
  {None, Msg(<<"Error:", AlreadyPresent>>), Msg(<<SamePwwn>>),
   Msg(<<"Failed to acquire lock">>)}
\* answers of the device to "device-alias commit"
DACommitAnswers ==
  {None, Msg(<<NoPendingChanges>>), Msg(<<EnhZoneMember>>), Msg(<<CommitInProgress>>),
   Msg(<<"\n", "Failed to acquire lock", "\n">>)}
\* answers of the device to "clear device-alias session"
DAClearAnswers == {None, Msg(<<"No session to clear">>)}

\* "show device-alias status" as the device may report it
DevModes == {BASIC, ENHANCED, <<"E","n","h","a","n","c","e","d">>}
DevDists == {<<"E","n","a","b","l","e","d">>, <<"d","i","s","a","b","l","e","d">>}
DevStates ==
  [database_mode : DevModes, fabric_distribution : DevDists]
  \cup [database_mode : DevModes, fabric_distribution : DevDists,
        Locked_by_user : {<<"admin">>}]

\* "show device-alias database" as the device may report it: nothing when the
\* database is empty, one row as a dict, several rows as a list
DbEntries == [dev_alias_name : DbNames, pwwn : Pwwns]
DbRows ==
  {PyDict(e) : e \in DbEntries}
  \cup {PyList(l) : l \in UNION {[1..n -> DbEntries] : n \in 1..MaxEntries}}
DbOut(row) ==
  [type |-> "dict",
   number_of_entries |-> IF row.type = "dict" THEN 1 ELSE Len(row.val),
   TABLE_device_alias_database |-> [ROW_device_alias_database |-> row]]
DbOutputs == {None} \cup {DbOut(row) : row \in DbRows}

(* ----------------------------- DeviceAlias ---------------------------- *)
ShowDatabaseCmd == <<"show", "device-alias", "database">>
ShowStatusCmd == <<"show", "device-alias", "status">>
DAHeader == <<"device-alias", "database", ";">>
DontAsk(body) ==
  <<"terminal", "dont-ask", ";">> \o body \o <<";", "no", "terminal", "dont-ask">>

ModeCmd(mode) ==
  IF Lower(mode) = ENHANCED
    THEN DAHeader \o <<"device-alias", "mode", "enhanced">>
    ELSE DAHeader \o <<"no", "device-alias", "mode", "enhanced">>
DistributeCmd(distribute) ==
  IF distribute
    THEN DAHeader \o <<"device-alias", "distribute">>
    ELSE DAHeader \o <<"no", "device-alias", "distribute">>
CreateCmd(name, pwwn) ==
  DAHeader \o <<"device-alias", "name", name, "pwwn", pwwn, ";">>
DeleteCmd(name) == DAHeader \o <<"no", "device-alias", "name", name>>
RenameCmd(oldname, newname) ==
  DAHeader \o <<"device-alias", "rename", oldname, newname>>
ClearLockCmd ==
  DontAsk(<<"device-alias", "database", ";", "clear", "device-alias", "session">>)
ClearDatabaseCmd ==
  DontAsk(<<"device-alias", "database", ";", "clear", "device-alias", "database">>)
CommitCmd == DontAsk(<<"device-alias", "commit">>)

\* dict(a, **b): the keys of b win
Merge(a, b) ==
  [k \in DOMAIN a \cup DOMAIN b |-> IF k \in DOMAIN b THEN b[k] ELSE a[k]]

\* __get_facts: the two shows it sends, and the dict it builds from their output
FactsLog == <<Show(ShowDatabaseCmd), Show(ShowStatusCmd)>>
get_facts(out, shdastatus) ==
  LET retoutput ==
        IF Truthy(out)
          THEN [number_of_entries |-> out.number_of_entries,
                device_alias_entries |->
                  out.TABLE_device_alias_database.ROW_device_alias_database]
          ELSE <<>>
  IN Merge(retoutput, shdastatus)

\* mutant of get_mode: the mode is not taken from the facts just read but is
\* the one the database had at the start
get_mode_Cached(facts_out) == BASIC

get_mode(facts_out) == facts_out["database_mode"]
get_distribute(facts_out) == facts_out["fabric_distribution"]
locked_user(facts_out) ==
  IF "Locked_by_user" \in DOMAIN facts_out
    THEN PyStr(facts_out["Locked_by_user"])
    ELSE None

\* mutant of distribute_of: the status text is compared without lower()
distribute_of_NoLower(facts_out) ==
  get_distribute(facts_out) = <<"e","n","a","b","l","e","d">>

\* the distribute getter
distribute_of(facts_out) ==
  Lower(get_distribute(facts_out)) = <<"e","n","a","b","l","e","d">>

\* the locked getter
locked_of(facts_out) == locked_user(facts_out) # None

RECURSIVE FillDict(_, _)
\* for eachentry in allentries: retout[name] = pwwn
FillDict(allentries, retout) ==
  IF allentries = <<>> THEN retout
  ELSE FillDict(Tail(allentries),
                Merge(retout, (Head(allentries).dev_alias_name :> Head(allentries).pwwn)))

\* mutant of database_of: no entries gives the empty mapping, not None
database_of_EmptyDict(facts_out) ==
  LET allentries ==
        IF "device_alias_entries" \in DOMAIN facts_out
          THEN facts_out["device_alias_entries"] ELSE PyList(<<>>)
  IN PyDict(FillDict(IF allentries.type = "dict"
                       THEN <<allentries.val>> ELSE allentries.val,
                     <<>>))

\* the database getter
database_of(facts_out) ==
  LET allentries ==
        IF "device_alias_entries" \in DOMAIN facts_out
          THEN facts_out["device_alias_entries"] ELSE None
  IN IF allentries = None THEN None
     ELSE PyDict(FillDict(IF allentries.type = "dict"
                            THEN <<allentries.val>> ELSE allentries.val,
                          <<>>))

\* mutant of ValidMode: the value is compared without lower()
ValidMode_NoLower(mode) == mode = ENHANCED \/ mode = BASIC

\* the mode setter accepts the value
ValidMode(mode) == Lower(mode) = ENHANCED \/ Lower(mode) = BASIC

\* mutant of IsBool: isinstance(distribute, int), which bool satisfies too
IsBool_OrInt(distribute) == distribute.type \in {"bool", "int"}

\* type(distribute) is bool
IsBool(distribute) == distribute.type = "bool"

\* mutant of AlreadyPresentMsg: every message is taken for "already present"
AlreadyPresentMsg_Any(msg) ==
  Contains(msg, <<AlreadyPresent>>) \/ ~Contains(msg, <<AlreadyPresent>>)

\* create: the answer is one of the two "already present" messages
AlreadyPresentMsg(msg) ==
  Contains(msg, <<AlreadyPresent>>) \/ Contains(msg, <<SamePwwn>>)

\* mutant of ClearIfEnhanced: the mode is compared without lower()
ClearIfEnhanced_NoLower(mode) == mode = ENHANCED

\* __clear_lock_if_enhanced: the condition under which clear_lock() is called
ClearIfEnhanced(mode) == Lower(mode) = ENHANCED

\* mutant of CommitClass: "Commit in progress" is not told from other messages
CommitClass_InProgressFatal(out) ==
  IF out = None THEN "ok"
  ELSE IF Contains(Strip(out.msg), <<NoPendingChanges>>) THEN "ok"
  ELSE IF Contains(Strip(out.msg), <<EnhZoneMember>>) THEN "clear_and_raise"
  ELSE "raise"

\* __send_commit: how the answer to the commit is classified
CommitClass(out) ==
  IF out = None THEN "ok"
  ELSE IF Contains(Strip(out.msg), <<NoPendingChanges>>) THEN "ok"
  ELSE IF Contains(Strip(out.msg), <<EnhZoneMember>>) THEN "clear_and_raise"
  ELSE IF Contains(Strip(out.msg), <<CommitInProgress>>) THEN "sleep"
  ELSE "raise"

\* NamePwwnDicts: the dicts create() is called with, as their items() in
\* insertion order (keys are distinct)
PwwnOf(name) ==
  IF name = "dev1" THEN "21:00:00:0e:1e:30:34:a5" ELSE "21:00:00:0e:1e:30:3c:c5"
NamePwwnDicts ==
  {l \in UNION {[1..n -> {[name |-> x, pwwn |-> PwwnOf(x)] : x \in Names}] :
                  n \in 0..MaxBatch} :
     \A a, b \in DOMAIN l : a # b => l[a].name # l[b].name}

(* -------------------------------- Zone -------------------------------- *)
\* the phrases zone.py looks for in a device message
ZoneAllowList ==
  {"Current zoning mode same as specified zoning mode",
   "Set zoning mode command initiated. Check zone status",
   "Enhanced zone session has been created",
   "No zone policy change",
   "Smart Zoning distribution initiated. check zone status",
   "Smart-zoning is already enabled",
   "Smart-zoning is already disabled"}
CommitInitiated == "Commit operation initiated. Check zone status"
NoPendingInfo == "No pending info found"
NotLocked == "Zone database not locked"

\* answers of the device to a zone configuration command
ZoneConfigAnswers ==
  {None, Msg(<<>>), Msg(<<"Zone is locked by another session">>)}
  \cup {Msg(<<p>>) : p \in ZoneAllowList}
\* answers of the device to "clear zone lock vsan <v>"
ZoneClearAnswers ==
  {None, Msg(<<>>), Msg(<<NotLocked>>), Msg(<<NoPendingInfo>>),
   Msg(<<"Permission denied">>)}
\* answers of the device to "zone commit vsan <v>"
ZoneCommitAnswers ==
  {None, Msg(<<>>), Msg(<<CommitInitiated>>), Msg(<<NoPendingInfo>>),
   Msg(<<"Commit failed">>)}

\* "show zone status vsan <v>" as the device may report it (mode, session), the
\* session it reports once it has taken a configuration command (on_config: a
\* command may open a session, or end one), and the id the Vsan collaborator
\* resolves to
SessionNone == <<"none">>
SessionHeld == <<"cli", "IP.Addr:", "10.1.1.2", "admin">>
ZDevStates ==
  [mode : {BASIC, ENHANCED}, session : {SessionNone, SessionHeld},
   on_config : {SessionNone, SessionHeld}, vsan_id : {None, PyInt(1)}]

\* "show zone name <n> vsan <v>" as the device may report it: nothing when the
\* zone does not exist, the zone without a member table, one member as a dict,
\* several members as a list
ZoneMembers == {[wwn |-> w] : w \in Pwwns}
ZoneNameOutputs ==
  {None, [type |-> "dict", zone_name |-> "zone1"]}
  \cup {[type |-> "dict", zone_name |-> "zone1",
         TABLE_zone_member |-> [ROW_zone_member |-> PyDict(e)]] : e \in ZoneMembers}
  \cup {[type |-> "dict", zone_name |-> "zone1",
         TABLE_zone_member |-> [ROW_zone_member |-> PyList(<<a, b>>)]] :
          a, b \in ZoneMembers}
\* the row of "show zone status": the mode and session of the switch, and a
\* default-zone policy and smart-zoning state no call of the model depends on
ZoneStatusRows(d) ==
  {[mode |-> d.mode, session |-> d.session, default_zone |-> dz, smart_zoning |-> sz] :
     dz \in {PERMIT, DENY},
     sz \in {<<"E","n","a","b","l","e","d">>, <<"D","i","s","a","b","l","e","d">>}}
\* lists add_members is called with
MemberLists ==
  {<<>>, <<PyStr(<<"21:00:00:0e:1e:30:34:a5">>)>>,
   <<PyStr(<<"dev1">>), PyStr(<<"21:00:00:0e:1e:30:3c:c5">>)>>,
   <<PyStr(<<"dev1">>), PyInt(1)>>, <<None>>}

ShowZoneNameCmd(name, vsan) == <<"show", "zone", "name", name, "vsan", Str(vsan)>>

\* Zone.name: the name the switch reports, None if it reports nothing
name_of(out) == IF Truthy(out) THEN PyStr(<<out.zone_name>>) ELSE None

\* Zone.members: the member rows as a list, None without a member table
members_of(out) ==
  IF Truthy(out)
    THEN IF "TABLE_zone_member" \in DOMAIN out
           THEN LET retout == out.TABLE_zone_member.ROW_zone_member IN
                IF retout.type = "dict" THEN PyList(<<retout.val>>) ELSE retout
           ELSE None
    ELSE None

ShowZoneStatusCmd(vsan) == <<"show", "zone", "status", "vsan", Str(vsan)>>

\* the mode setter's command
ZoneModeCmd(value, vsan) ==
  LET cmd == <<"terminal", "dont-ask", ";", "zone", "mode">> \o ENHANCED
               \o <<"vsan", Str(vsan), ";", "no", "terminal", "dont-ask">>
  IN IF Lower(value) = ENHANCED THEN cmd
     ELSE Replace(cmd, <<"zone", "mode">>, <<"no", "zone", "mode">>)

\* the zone mode setter accepts the value
ValidZoneMode(value) == Lower(value) = ENHANCED \/ Lower(value) = BASIC

\* mutant of DefaultZoneCmd: the "no " prefix for deny is forgotten
DefaultZoneCmd_NoNegation(value, vsan) ==
  <<"terminal", "dont-ask", ";", "zone", "default-zone">> \o PERMIT
    \o <<"vsan", Str(vsan), ";", "no", "terminal", "dont-ask">>

\* the default_zone setter's command
DefaultZoneCmd(value, vsan) ==
  LET cmd == <<"terminal", "dont-ask", ";", "zone", "default-zone">> \o PERMIT
               \o <<"vsan", Str(vsan), ";", "no", "terminal", "dont-ask">>
  IN IF Lower(value) = PERMIT THEN cmd
     ELSE Replace(cmd, <<"zone", "default-zone">>, <<"no", "zone", "default-zone">>)

\* the default_zone setter accepts the value
ValidDefaultZone(value) == Lower(value) = PERMIT \/ Lower(value) = DENY

\* the smart_zone setter's command
SmartZoneCmd(value, vsan) ==
  LET cmd == <<"zone", "smart-zoning", "enable", "vsan", Str(vsan)>>
  IN IF Truthy(value)
       THEN <<"terminal", "dont-ask", ";">> \o cmd \o <<";", "no", "terminal", "dont-ask">>
       ELSE <<"terminal", "dont-ask", ";", "no">> \o cmd
              \o <<";", "no", "terminal", "dont-ask">>

ZoneCreateCmd(name, vsan) == <<"zone", "name", name, "vsan", Str(vsan)>>
ZoneDeleteCmd(name, vsan) == <<"no", "zone", "name", name, "vsan", Str(vsan)>>
ZoneClearLockCmd(vsan) ==
  <<"terminal", "dont-ask", ";", "clear", "zone", "lock", "vsan", Str(vsan), ";",
    "no", "terminal", "dont-ask">>
ZoneCommitCmd(vsan) == <<"zone", "commit", "vsan", Str(vsan)>>

\* mutant of ZoneLocked: the test of the session text is inverted
ZoneLocked_Inverted(lock_details) == Contains(lock_details, <<"none">>)

\* Zone.locked: "none" in self._lock_details -> False
ZoneLocked(lock_details) == ~Contains(lock_details, <<"none">>)

\* mutant of ZoneAccepted: every non-empty message is a rejection
ZoneAccepted_NoAllowList(out) ==
  \/ out = None
  \/ out.msg = <<>>

\* __send_zone_cmds: the device accepted the command
ZoneAccepted(out) ==
  \/ out = None
  \/ out.msg = <<>>
  \/ \E p \in ZoneAllowList : Contains(out.msg, <<p>>)

\* __clear_lock_if_enhanced: the condition under which clear_lock() is called
ZoneClearIfEnhanced(mode) == mode = ENHANCED

\* mutant of ZoneClearBenign: no answer to the clear command is fatal
ZoneClearBenign_Always(out) == out = None \/ out.msg = out.msg

\* Zone.clear_lock: the answer to the clear command is benign
ZoneClearBenign(out) ==
  \/ out = None
  \/ out.msg = <<>>
  \/ Contains(out.msg, <<NotLocked>>)
  \/ Contains(out.msg, <<NoPendingInfo>>)

\* mutant of ZoneCommitBenign: "No pending info found" is not caught
ZoneCommitBenign_NoPendingFatal(out) ==
  \/ out = None
  \/ out.msg = <<>>
  \/ Contains(out.msg, <<CommitInitiated>>)

\* __commit_config_if_locked: the answer to the commit is benign
ZoneCommitBenign(out) ==
  \/ out = None
  \/ out.msg = <<>>
  \/ Contains(out.msg, <<CommitInitiated>>)
  \/ Contains(out.msg, <<NoPendingInfo>>)

\* raise VsanNotPresent("Vsan ... is not present on the switch.")
VsanNotPresent(vsan) ==
  Raise("VsanNotPresent", <<"Vsan", Str(vsan), "is not present on the switch.">>)

\* raise CLIError("ERROR!! Zone lock is acquired. Lock details are: " + details)
LockHeldError(lock_details) ==
  CLIError(<<"ERROR!! Zone lock is acquired. Lock details are:">> \o lock_details, <<>>)

\* values the callers hand to the default_zone setter
DefaultZoneValues ==
  {PERMIT, DENY, <<"P","e","r","m","i","t">>, <<"D","E","N","Y">>,
   <<"m","a","y","b","e">>, <<>>}

\* values the callers hand to the smart_zone setter
SmartZoneValues == {PyBool(TRUE), PyBool(FALSE), PyInt(0), PyStr(<<"o","n">>)}

(* ------------------------------- state -------------------------------- *)
VARIABLES
  dev,     \* the switch: what "show device-alias status" reports
  zdev,    \* the switch: what "show zone status" reports, and the vsan's id
  zone,    \* the Zone object's fields
  op,      \* the call in progress: [name, arg]
  pc,      \* position inside the call
  loc,     \* the call's local variables
  log,     \* transport calls (and sleeps) of the call, in order
  result   \* how the call ended: a return value or a raised error

vars == <<dev, zdev, zone, op, pc, loc, log, result>>

Idle == [name |-> "idle", arg |-> None]
Loc0 == [mode |-> <<>>, cmd |-> <<>>, out |-> None, i |-> 0, _lock_details |-> <<>>]
NoResult == [kind |-> "none"]

Dev0 == [database_mode |-> BASIC,
         fabric_distribution |-> <<"d","i","s","a","b","l","e","d">>]
ZDev0 == [mode |-> BASIC, session |-> SessionNone, on_config |-> SessionNone,
          vsan_id |-> PyInt(1)]

\* Zone(switch, vsanobj, name) was constructed while the vsan resolved to 1.
\* self._lock_details is written by every read of locked before the one place
\* that reads it (zone.py:200, 241): it is kept with the call's locals.
Init ==
  /\ dev = Dev0
  /\ zdev = ZDev0
  /\ zone = [_vsan |-> 1, _name |-> "zone1"]
  /\ op = Idle
  /\ pc = "idle"
  /\ loc = Loc0
  /\ log = <<>>
  /\ result = NoResult

\* the call ends: the caller sees result
Done(res) ==
  /\ pc' = "done"
  /\ result' = res

\* another session, or the operator at the console, changes the switch
\* between two calls of the library
\* (DeviceAlias reads dev only and Zone reads zdev only: the two are varied
\* one at a time)
DeviceChange ==
  /\ pc = "idle"
  /\ \/ dev' \in DevStates /\ zdev' = ZDev0
     \/ dev' = Dev0 /\ zdev' \in ZDevStates
  /\ UNCHANGED <<zone, op, pc, loc, log, result>>

\* the caller takes the result; the next call starts afresh
Finish ==
  /\ pc = "done"
  /\ pc' = "idle"
  /\ op' = Idle
  /\ loc' = Loc0
  /\ log' = <<>>
  /\ result' = NoResult
  /\ UNCHANGED <<dev, zdev, zone>>

\* DeviceAlias.mode (getter)
DA_mode_get ==
  /\ pc = "idle"
  /\ op' = [name |-> "DeviceAlias.mode", arg |-> None]
  /\ \E out \in DbOutputs :
       Done(Return(PyStr(get_mode(get_facts(out, dev)))))
  /\ log' = FactsLog
  /\ UNCHANGED <<dev, zdev, zone, loc>>

\* DeviceAlias.distribute (getter)
DA_distribute_get ==
  /\ pc = "idle"
  /\ op' = [name |-> "DeviceAlias.distribute", arg |-> None]
  /\ \E out \in DbOutputs :
       Done(Return(PyBool(distribute_of(get_facts(out, dev)))))
  /\ log' = FactsLog
  /\ UNCHANGED <<dev, zdev, zone, loc>>

\* DeviceAlias.locked
DA_locked ==
  /\ pc = "idle"
  /\ op' = [name |-> "DeviceAlias.locked", arg |-> None]
  /\ \E out \in DbOutputs :
       Done(Return(PyBool(locked_of(get_facts(out, dev)))))
  /\ log' = FactsLog
  /\ UNCHANGED <<dev, zdev, zone, loc>>

\* DeviceAlias.database: arg records what the device answered to the show
DA_database ==
  /\ pc = "idle"
  /\ \E out \in DbOutputs :
       /\ op' = [name |-> "DeviceAlias.database", arg |-> out]
       /\ Done(Return(database_of(get_facts(out, dev))))
  /\ log' = FactsLog
  /\ UNCHANGED <<dev, zdev, zone, loc>>

\* values the callers hand to the mode setters
ModeValues ==
  {BASIC, ENHANCED, <<"B","A","S","I","C">>, <<"E","n","h","a","n","c","e","d">>,
   <<"m","a","y","b","e">>, <<"b","a","s","i","c","s">>, <<>>}

\* values the callers hand to the distribute setter
DistributeValues ==
  {PyBool(TRUE), PyBool(FALSE), PyInt(1), PyInt(0), PyStr(<<"t","r","u","e">>), None}

\* DeviceAlias.distribute (setter)
DA_distribute_set ==
  /\ pc = "idle"
  /\ \E distribute \in DistributeValues :
       /\ op' = [name |-> "DeviceAlias.distribute=", arg |-> distribute]
       /\ IF ~IsBool(distribute)
            THEN /\ Done(Raise("TypeError", <<"Only bool value(true/false) supported.">>))
                 /\ log' = <<>>
            ELSE \E out \in DAConfigAnswers :
                   LET cmd == DistributeCmd(Truthy(distribute)) IN
                   /\ log' = <<Config(cmd, out)>>
                   /\ IF out # None
                        THEN Done(CLIError(cmd, out.msg))
                        ELSE Done(Return(None))
  /\ UNCHANGED <<dev, zdev, zone, loc>>

\* "show device-alias database" outputs used where the rows are not read
DbSamples == {None} \cup {DbOut(PyDict(e)) : e \in DbEntries}

\* the end of a call whose commands and cleanup are through: the raise for a
\* rejected command, the next entry of create after an "already present"
\* answer, or the normal return
After(o, l) ==
  IF l.out = None
    THEN /\ Done(Return(None))
         /\ loc' = l
    ELSE IF o.name = "DeviceAlias.create" /\ AlreadyPresentMsg(l.out.msg)
      THEN /\ loc' = [l EXCEPT !.out = None, !.i = l.i + 1]
           /\ pc' = IF l.i + 1 > Len(o.arg) THEN "dist" ELSE "loop"
           /\ result' = result
      ELSE /\ Done(CLIError(l.cmd, l.out.msg))
           /\ loc' = l

\* the device answered a configuration command (sent: the log with the command,
\* l: the locals with cmd and out). clear: the operation calls
\* __clear_lock_if_enhanced(mode) for a rejected command.
\*   out is None     -> on to the next entry, or to the final distribute read
\*   out is not None -> [clear lock if enhanced;] dist = self.distribute;
\*                      commit if dist; then After
Answered(o, sent, l, clear) ==
  IF l.out = None
    THEN /\ log' = sent
         /\ IF o.name = "DeviceAlias.create"
              THEN /\ loc' = [l EXCEPT !.i = l.i + 1]
                   /\ pc' = IF l.i + 1 > Len(o.arg) THEN "dist" ELSE "loop"
              ELSE /\ loc' = l
                   /\ pc' = "dist"
         /\ result' = result
    ELSE \E c \in DAClearAnswers, facts \in DbSamples :
           /\ log' = (IF clear /\ ClearIfEnhanced(l.mode)
                        THEN Append(sent, Config(ClearLockCmd, c))
                        ELSE sent) \o FactsLog
           /\ IF distribute_of(get_facts(facts, dev))
                THEN /\ pc' = "commit"
                     /\ loc' = l
                     /\ result' = result
                ELSE After(o, l)

\* DeviceAlias.mode (setter), up to the commit
DA_mode_set ==
  /\ pc = "idle"
  /\ \E mode \in ModeValues :
       LET o == [name |-> "DeviceAlias.mode=", arg |-> PyStr(mode)] IN
       /\ op' = o
       /\ IF ~ValidMode(mode)
            THEN /\ Done(Raise("InvalidMode",
                               <<"Invalid device alias mode: ">> \o mode
                                 \o <<". Valid values are ">> \o ENHANCED \o <<",">> \o BASIC))
                 /\ log' = <<>>
                 /\ loc' = loc
            ELSE \E out \in DAConfigAnswers :
                   Answered(o, <<Config(ModeCmd(mode), out)>>,
                            [loc EXCEPT !.mode = mode, !.cmd = ModeCmd(mode), !.out = out],
                            FALSE)
  /\ UNCHANGED <<dev, zdev, zone>>

\* DeviceAlias.create, up to the first entry: mode = self.mode
DA_create ==
  /\ pc = "idle"
  /\ \E namepwwn \in NamePwwnDicts, facts \in DbSamples :
       /\ op' = [name |-> "DeviceAlias.create", arg |-> namepwwn]
       /\ loc' = [loc EXCEPT !.mode = get_mode(get_facts(facts, dev)), !.i = 1]
       /\ pc' = IF Len(namepwwn) = 0 THEN "dist" ELSE "loop"
  /\ log' = FactsLog
  /\ UNCHANGED <<dev, zdev, zone, result>>

\* DeviceAlias.create: one iteration of the loop
DA_create_entry ==
  /\ pc = "loop"
  /\ LET namepwwn == op.arg
         cmd == CreateCmd(namepwwn[loc.i].name, namepwwn[loc.i].pwwn)
     IN \E out \in DAConfigAnswers :
          Answered(op, Append(log, Config(cmd, out)),
                   [loc EXCEPT !.cmd = cmd, !.out = out], TRUE)
  /\ UNCHANGED <<dev, zdev, zone, op>>

\* mutant of SingleCmd: a rejected command is not followed by the lock-clear
SingleCmd_NoClear(o, cmd) ==
  /\ pc = "idle"
  /\ op' = o
  /\ \E facts \in DbSamples, out \in DAConfigAnswers :
       Answered(o, FactsLog \o <<Config(cmd, out)>>,
                [loc EXCEPT !.mode = get_mode(get_facts(facts, dev)),
                            !.cmd = cmd, !.out = out],
                FALSE)
  /\ UNCHANGED <<dev, zdev, zone>>

\* a single-command operation: mode = self.mode, the command, and the cleanup
\* of a rejected command up to the commit
SingleCmd(o, cmd) ==
  /\ pc = "idle"
  /\ op' = o
  /\ \E facts \in DbSamples, out \in DAConfigAnswers :
       Answered(o, FactsLog \o <<Config(cmd, out)>>,
                [loc EXCEPT !.mode = get_mode(get_facts(facts, dev)),
                            !.cmd = cmd, !.out = out],
                TRUE)
  /\ UNCHANGED <<dev, zdev, zone>>

\* DeviceAlias.delete
DA_delete ==
  \E name \in Names :
    SingleCmd([name |-> "DeviceAlias.delete", arg |-> PyStr(<<name>>)], DeleteCmd(name))

\* DeviceAlias.rename
DA_rename ==
  \E oldname, newname \in Names :
    SingleCmd([name |-> "DeviceAlias.rename", arg |-> PyList(<<oldname, newname>>)],
              RenameCmd(oldname, newname))

\* DeviceAlias.clear_database
DA_clear_database ==
  SingleCmd([name |-> "DeviceAlias.clear_database", arg |-> None], ClearDatabaseCmd)

\* mutant of DA_clear_lock: a message in the answer is raised as CLIError
DA_clear_lock_Raises ==
  /\ pc = "idle"
  /\ op' = [name |-> "DeviceAlias.clear_lock", arg |-> None]
  /\ \E out \in DAClearAnswers :
       /\ log' = <<Config(ClearLockCmd, out)>>
       /\ IF out = None
            THEN Done(Return(None))
            ELSE Done(CLIError(ClearLockCmd, out.msg))
  /\ UNCHANGED <<dev, zdev, zone, loc>>

\* DeviceAlias.clear_lock
DA_clear_lock ==
  /\ pc = "idle"
  /\ op' = [name |-> "DeviceAlias.clear_lock", arg |-> None]
  /\ \E out \in DAClearAnswers : log' = <<Config(ClearLockCmd, out)>>
  /\ Done(Return(None))
  /\ UNCHANGED <<dev, zdev, zone, loc>>

\* the distribute read that follows an accepted command or the whole batch:
\* dist = self.distribute; if dist and dist is not None: __send_commit(mode)
DA_read_distribute ==
  /\ pc = "dist"
  /\ log' = log \o FactsLog
  /\ \E facts \in DbSamples :
       IF distribute_of(get_facts(facts, dev))
         THEN /\ pc' = "commit"
              /\ UNCHANGED <<loc, result>>
         ELSE After(op, loc)
  /\ UNCHANGED <<dev, zdev, zone, op>>

\* mutant of DA_send_commit: after the wait for a commit in progress the commit
\* is sent again
DA_send_commit_Resend ==
  /\ pc = "commit"
  /\ \E out \in DACommitAnswers :
       LET sent == Append(log, Config(CommitCmd, out)) IN
       CASE CommitClass(out) = "ok" ->
              /\ log' = sent
              /\ After(op, loc)
         [] CommitClass(out) = "sleep" ->
              /\ log' = sent \o <<Sleep(CommitWait), Config(CommitCmd, None)>>
              /\ After(op, loc)
         [] CommitClass(out) = "clear_and_raise" ->
              /\ IF ClearIfEnhanced(loc.mode)
                   THEN \E c \in DAClearAnswers :
                          log' = Append(sent, Config(ClearLockCmd, c))
                   ELSE log' = sent
              /\ Done(CLIError(CommitCmd, Strip(out.msg)))
              /\ loc' = loc
         [] OTHER ->
              /\ log' = sent
              /\ Done(CLIError(CommitCmd, Strip(out.msg)))
              /\ loc' = loc
  /\ UNCHANGED <<dev, zdev, zone, op>>

\* __send_commit(mode), and what follows it in the caller
DA_send_commit ==
  /\ pc = "commit"
  /\ \E out \in DACommitAnswers :
       LET sent == Append(log, Config(CommitCmd, out)) IN
       CASE CommitClass(out) = "ok" ->
              /\ log' = sent
              /\ After(op, loc)
         [] CommitClass(out) = "sleep" ->
              /\ log' = Append(sent, Sleep(CommitWait))
              /\ After(op, loc)
         [] CommitClass(out) = "clear_and_raise" ->
              /\ IF ClearIfEnhanced(loc.mode)
                   THEN \E c \in DAClearAnswers :
                          log' = Append(sent, Config(ClearLockCmd, c))
                   ELSE log' = sent
              /\ Done(CLIError(CommitCmd, Strip(out.msg)))
              /\ loc' = loc
         [] OTHER ->
              /\ log' = sent
              /\ Done(CLIError(CommitCmd, Strip(out.msg)))
              /\ loc' = loc
  /\ UNCHANGED <<dev, zdev, zone, op>>

(* ----------------------------- Zone calls ------------------------------ *)
\* a call that ends before anything is sent
Fail(o, res) ==
  /\ op' = o
  /\ Done(res)
  /\ log' = <<>>
  /\ UNCHANGED <<dev, zdev, zone, loc>>

\* __send_zone_cmds(cmd), the pre-check: if self.locked: raise CLIError(...)
SendZoneCmds(o, cmd) ==
  /\ op' = o
  /\ log' = <<Show(ShowZoneStatusCmd(zone._vsan))>>
  /\ IF ZoneLocked(zdev.session)
       THEN /\ Done(LockHeldError(zdev.session))
            /\ loc' = [loc EXCEPT !._lock_details = zdev.session]
       ELSE /\ pc' = "zconfig"
            /\ loc' = [loc EXCEPT !.cmd = cmd, !._lock_details = zdev.session]
            /\ result' = result
  /\ UNCHANGED <<dev, zdev, zone>>

\* Zone.mode (setter), up to the pre-check of the lock
Z_mode_set ==
  /\ pc = "idle"
  /\ \E value \in ModeValues :
       LET o == [name |-> "Zone.mode=", arg |-> PyStr(value)] IN
       IF zdev.vsan_id = None THEN Fail(o, VsanNotPresent(zone._vsan))
       ELSE IF ValidZoneMode(value) THEN SendZoneCmds(o, ZoneModeCmd(value, zone._vsan))
       ELSE Fail(o, Raise("InvalidZoneMode",
                          <<"Invalid zone mode">> \o value \o <<". Valid values are:">>
                            \o BASIC \o <<",">> \o ENHANCED))

\* Zone.default_zone (setter), up to the pre-check of the lock
Z_default_zone_set ==
  /\ pc = "idle"
  /\ \E value \in DefaultZoneValues :
       LET o == [name |-> "Zone.default_zone=", arg |-> PyStr(value)] IN
       IF zdev.vsan_id = None THEN Fail(o, VsanNotPresent(zone._vsan))
       ELSE IF ValidDefaultZone(value)
         THEN SendZoneCmds(o, DefaultZoneCmd(value, zone._vsan))
       ELSE Fail(o, CLIError(<<"No cmd sent">>,
                             <<"Invalid default-zone value">> \o value
                               \o <<". Valid values are:">> \o PERMIT \o <<",">> \o DENY))

\* Zone.smart_zone (setter), up to the pre-check of the lock
Z_smart_zone_set ==
  /\ pc = "idle"
  /\ \E value \in SmartZoneValues :
       LET o == [name |-> "Zone.smart_zone=", arg |-> value] IN
       IF zdev.vsan_id = None THEN Fail(o, VsanNotPresent(zone._vsan))
       ELSE SendZoneCmds(o, SmartZoneCmd(value, zone._vsan))

\* Zone.create, up to the pre-check of the lock
Z_create ==
  /\ pc = "idle"
  /\ LET o == [name |-> "Zone.create", arg |-> None] IN
     IF zdev.vsan_id = None THEN Fail(o, VsanNotPresent(zone._vsan))
     ELSE SendZoneCmds(o, ZoneCreateCmd(zone._name, zone._vsan))

\* Zone.delete, up to the pre-check of the lock
Z_delete ==
  /\ pc = "idle"
  /\ LET o == [name |-> "Zone.delete", arg |-> None] IN
     IF zdev.vsan_id = None THEN Fail(o, VsanNotPresent(zone._vsan))
     ELSE SendZoneCmds(o, ZoneDeleteCmd(zone._name, zone._vsan))

\* __send_zone_cmds after the pre-check: the command is sent and its answer
\* classified; a rejected command is followed by __clear_lock_if_enhanced
\* (sleep, read the mode, clear_lock if enhanced) and the raise. The command
\* may open or close the zone session on the switch.
Z_send_config ==
  /\ pc = "zconfig"
  /\ \E out \in ZoneConfigAnswers :
       LET sent == Append(log, Config(loc.cmd, out)) IN
       /\ zdev' = [zdev EXCEPT !.session = zdev.on_config]
       /\ IF ZoneAccepted(out)
            THEN /\ log' = sent
                 /\ loc' = [loc EXCEPT !.out = out]
                 /\ pc' = "zcommit"
                 /\ result' = result
            ELSE /\ loc' = [loc EXCEPT !.out = out]
                 /\ IF ZoneClearIfEnhanced(zdev.mode)
                      THEN \E c \in ZoneClearAnswers :
                             /\ log' = sent \o <<Sleep(ZoneWait),
                                                 Show(ShowZoneStatusCmd(zone._vsan)),
                                                 Config(ZoneClearLockCmd(zone._vsan), c)>>
                             /\ IF ZoneClearBenign(c)
                                  THEN Done(CLIError(loc.cmd, out.msg))
                                  ELSE Done(CLIError(ZoneClearLockCmd(zone._vsan), c.msg))
                      ELSE /\ log' = sent \o <<Sleep(ZoneWait),
                                               Show(ShowZoneStatusCmd(zone._vsan))>>
                           /\ Done(CLIError(loc.cmd, out.msg))
  /\ UNCHANGED <<dev, zone, op>>

\* __commit_config_if_locked
Z_commit_config_if_locked ==
  /\ pc = "zcommit"
  /\ loc' = [loc EXCEPT !._lock_details = zdev.session]
  /\ LET read == log \o <<Sleep(ZoneWait), Show(ShowZoneStatusCmd(zone._vsan))>> IN
     IF ZoneLocked(zdev.session)
       THEN \E o \in ZoneCommitAnswers :
              /\ log' = Append(read, Config(ZoneCommitCmd(zone._vsan), o))
              /\ IF ZoneCommitBenign(o)
                   THEN Done(Return(None))
                   ELSE Done(CLIError(ZoneCommitCmd(zone._vsan), o.msg))
       ELSE /\ log' = read
            /\ Done(Return(None))
  /\ UNCHANGED <<dev, zdev, zone, op>>

\* Zone(switch, vsanobj, name)
Z_init ==
  /\ pc = "idle"
  /\ op' = [name |-> "Zone.__init__", arg |-> None]
  /\ log' = <<>>
  /\ IF zdev.vsan_id = None
       THEN /\ Done(VsanNotPresent(zone._vsan))
            /\ zone' = zone
       ELSE /\ Done(Return(None))
            /\ zone' = [_vsan |-> zdev.vsan_id.val, _name |-> "zone1"]
  /\ UNCHANGED <<dev, zdev, loc>>

\* a getter that reads "show zone name <n> vsan <v>" and returns a value made
\* from its output
ZoneNameGetter(name, value) ==
  /\ pc = "idle"
  /\ op' = [name |-> name, arg |-> None]
  /\ IF zdev.vsan_id = None
       THEN /\ Done(VsanNotPresent(zone._vsan))
            /\ log' = <<>>
       ELSE /\ log' = <<Show(ShowZoneNameCmd(zone._name, zone._vsan))>>
            /\ Done(Return(value))
  /\ UNCHANGED <<dev, zdev, zone, loc>>

\* Zone.name
Z_name == \E out \in ZoneNameOutputs : ZoneNameGetter("Zone.name", name_of(out))

\* Zone.vsan: the Vsan collaborator if the zone has a name on the switch
Z_vsan ==
  \E out \in ZoneNameOutputs :
    ZoneNameGetter("Zone.vsan",
                   IF name_of(out) # None
                     THEN [type |-> "Vsan", id |-> zdev.vsan_id]
                     ELSE None)

\* Zone.members
Z_members ==
  \E out \in ZoneNameOutputs : ZoneNameGetter("Zone.members", members_of(out))

\* a getter that reads "show zone status vsan <v>" and returns one key of it
ZoneStatusGetter(name, key) ==
  /\ pc = "idle"
  /\ op' = [name |-> name, arg |-> None]
  /\ IF zdev.vsan_id = None
       THEN /\ Done(VsanNotPresent(zone._vsan))
            /\ log' = <<>>
       ELSE /\ log' = <<Show(ShowZoneStatusCmd(zone._vsan))>>
            /\ \E row \in ZoneStatusRows(zdev) : Done(Return(PyStr(row[key])))
  /\ UNCHANGED <<dev, zdev, zone, loc>>

\* Zone.mode (getter)
Z_mode_get == ZoneStatusGetter("Zone.mode", "mode")

\* Zone.default_zone (getter)
Z_default_zone_get == ZoneStatusGetter("Zone.default_zone", "default_zone")

\* Zone.smart_zone (getter)
Z_smart_zone_get == ZoneStatusGetter("Zone.smart_zone", "smart_zoning")

\* Zone.locked
Z_locked ==
  /\ pc = "idle"
  /\ op' = [name |-> "Zone.locked", arg |-> None]
  /\ IF zdev.vsan_id = None
       THEN /\ Done(VsanNotPresent(zone._vsan))
            /\ log' = <<>>
            /\ loc' = loc
       ELSE /\ log' = <<Show(ShowZoneStatusCmd(zone._vsan))>>
            /\ loc' = [loc EXCEPT !._lock_details = zdev.session]
            /\ Done(Return(PyBool(ZoneLocked(zdev.session))))
  /\ UNCHANGED <<dev, zdev, zone>>

\* Zone.clear_lock
Z_clear_lock ==
  /\ pc = "idle"
  /\ op' = [name |-> "Zone.clear_lock", arg |-> None]
  /\ IF zdev.vsan_id = None
       THEN /\ Done(VsanNotPresent(zone._vsan))
            /\ log' = <<>>
       ELSE \E out \in ZoneClearAnswers :
              /\ log' = <<Config(ZoneClearLockCmd(zone._vsan), out)>>
              /\ IF ZoneClearBenign(out)
                   THEN Done(Return(None))
                   ELSE Done(CLIError(ZoneClearLockCmd(zone._vsan), out.msg))
  /\ UNCHANGED <<dev, zdev, zone, loc>>

\* Zone.add_members: cmdlist.append() is called without an argument, which
\* raises TypeError before the members are looked at
Z_add_members ==
  /\ pc = "idle"
  /\ \E members \in MemberLists :
       op' = [name |-> "Zone.add_members", arg |-> PyList(members)]
  /\ log' = <<>>
  /\ Done(Raise("TypeError", <<"list.append() takes exactly one argument (0 given)">>))
  /\ UNCHANGED <<dev, zdev, zone, loc>>

Next ==
  \/ DeviceChange
  \/ Finish
  \/ DA_mode_get
  \/ DA_mode_set
  \/ DA_distribute_get
  \/ DA_distribute_set
  \/ DA_locked
  \/ DA_database
  \/ DA_create
  \/ DA_create_entry
  \/ DA_delete
  \/ DA_rename
  \/ DA_clear_lock
  \/ DA_clear_database
  \/ DA_read_distribute
  \/ DA_send_commit
  \/ Z_mode_set
  \/ Z_default_zone_set
  \/ Z_smart_zone_set
  \/ Z_create
  \/ Z_delete
  \/ Z_send_config
  \/ Z_commit_config_if_locked
  \/ Z_init
  \/ Z_name
  \/ Z_vsan
  \/ Z_members
  \/ Z_mode_get
  \/ Z_default_zone_get
  \/ Z_smart_zone_get
  \/ Z_locked
  \/ Z_clear_lock
  \/ Z_add_members

Spec == Init /\ [][Next]_vars

\* another session on the switch takes or releases the zone lock between two
\* transport calls of a Zone call in progress
OtherSession ==
  /\ pc \in {"zconfig", "zcommit"}
  /\ \E s \in {SessionNone, SessionHeld} :
       /\ s # zdev.session
       /\ zdev' = [zdev EXCEPT !.session = s]
  /\ UNCHANGED <<dev, zone, op, pc, loc, log, result>>

NextRace ==
  \/ Next
  \/ OtherSession

\* the library with a second session active on the switch
SpecRace == Init /\ [][NextRace]_vars

(* ------------------------------- claims ------------------------------- *)
\* the configuration commands of the call so far, in the order sent
ConfigCmds == [k \in 1..Len(SelectSeq(log, LAMBDA e : e.kind = "config")) |->
                 SelectSeq(log, LAMBDA e : e.kind = "config")[k].cmd]
\* positions of the log holding a given configuration command
Sent(cmd) == {k \in DOMAIN log : log[k].kind = "config" /\ log[k].cmd = cmd}
\* positions of the log holding one of create's "device-alias name" commands
CreatesSent ==
  {k \in DOMAIN log : log[k].kind = "config"
                      /\ Contains(log[k].cmd, <<"device-alias", "name">>)}
\* the switch reports fabric distribution enabled / the enhanced database mode
DistEnabled == Lower(dev.fabric_distribution) = <<"e","n","a","b","l","e","d">>
ModeEnhanced == Lower(dev.database_mode) = ENHANCED
\* the text of the create command for entry k of the dict create() was handed
CreateText(k) ==
  <<"device-alias", "database", ";", "device-alias", "name", op.arg[k].name,
    "pwwn", op.arg[k].pwwn, ";">>
CommitText ==
  <<"terminal", "dont-ask", ";", "device-alias", "commit", ";", "no", "terminal",
    "dont-ask">>
LockClearText ==
  <<"terminal", "dont-ask", ";", "device-alias", "database", ";", "clear",
    "device-alias", "session", ";", "no", "terminal", "dont-ask">>
CreateDone == pc = "done" /\ op.name = "DeviceAlias.create"
\* every create command of the call was answered None
AllCreatesNone == \A k \in CreatesSent : log[k].ans = None
\* the answer is one of the two "already present" messages
SaysAlreadyPresent(ans) ==
  /\ ans # None
  /\ \/ Contains(ans.msg, <<"Device Alias already present">>)
     \/ Contains(ans.msg, <<"Another device-alias already present with the same pwwn">>)

\* C1 (as stated): after create() of n entries all answered None, the config
\* commands are exactly the n create commands in the caller's order, then one
\* commit when distribution is enabled, and never a lock-clear.
C1_AsStated ==
  (CreateDone /\ AllCreatesNone /\ Len(op.arg) >= 1) =>
    ConfigCmds = [k \in 1..Len(op.arg) |-> CreateText(k)]
                   \o (IF DistEnabled THEN <<CommitText>> ELSE <<>>)

\* C1 (amended): after create() of n entries all answered None, the config
\* commands are the n create commands in the caller's order, then exactly one
\* commit when distribution is enabled and none when it is disabled; a
\* lock-clear is sent only after that commit and only when the mode is enhanced
\* and the commit is answered "Device-alias enhanced zone member present".
C1_BatchedCommit ==
  (CreateDone /\ AllCreatesNone) =>
    LET n == Len(op.arg)
        clears == DistEnabled /\ ModeEnhanced /\ Len(ConfigCmds) > n
                  /\ \E k \in Sent(CommitText) :
                       /\ log[k].ans # None
                       /\ Contains(log[k].ans.msg, <<EnhZoneMember>>)
                       /\ ~Contains(log[k].ans.msg, <<NoPendingChanges>>)
    IN ConfigCmds = [k \in 1..n |-> CreateText(k)]
                      \o (IF DistEnabled THEN <<CommitText>> ELSE <<>>)
                      \o (IF clears THEN <<LockClearText>> ELSE <<>>)

\* C1 witness: a two-entry batch, all answered None, enhanced mode, distribution
\* enabled, the commit sent and the call returned
C1_Witness ==
  /\ CreateDone /\ AllCreatesNone
  /\ Len(op.arg) = 2
  /\ DistEnabled /\ ModeEnhanced
  /\ Cardinality(Sent(CommitText)) = 1
  /\ result.kind = "return"

\* C2: create() of one pair that the device rejects with a message that is not
\* "already present" ends in CLIError; with distribution enabled exactly one
\* commit was sent, after the create command; with distribution disabled none.
C2_RejectedPair ==
  (CreateDone /\ Len(op.arg) = 1
     /\ \E k \in CreatesSent : log[k].ans # None /\ ~SaysAlreadyPresent(log[k].ans)) =>
    /\ result.kind = "CLIError"
    /\ Cardinality(CreatesSent) = 1
    /\ Cardinality(Sent(CommitText)) = (IF DistEnabled THEN 1 ELSE 0)
    /\ \A c \in Sent(CommitText), k \in CreatesSent : k < c

\* C2 witness: the rejected pair, distribution enabled, the commit accepted and
\* the create's error raised
C2_Witness ==
  /\ CreateDone /\ Len(op.arg) = 1
  /\ \E k \in CreatesSent : log[k].ans # None /\ ~SaysAlreadyPresent(log[k].ans)
  /\ DistEnabled
  /\ Cardinality(Sent(CommitText)) = 1
  /\ result.kind = "CLIError" /\ result.command = CreateText(1)

\* C3 (as stated): a create() whose entries are answered None or "already
\* present", with at least one "already present", returns normally, with at most
\* one commit over the whole call, sent after the last create command.
C3_AsStated ==
  (CreateDone
     /\ (\A k \in CreatesSent : log[k].ans = None \/ SaysAlreadyPresent(log[k].ans))
     /\ (\E k \in CreatesSent : SaysAlreadyPresent(log[k].ans))) =>
    /\ result.kind = "return"
    /\ Cardinality(Sent(CommitText)) <= 1
    /\ \A c \in Sent(CommitText), k \in CreatesSent : k < c

DAMutators ==
  {"DeviceAlias.mode=", "DeviceAlias.distribute=", "DeviceAlias.create",
   "DeviceAlias.delete", "DeviceAlias.rename", "DeviceAlias.clear_database"}
ZoneMutators ==
  {"Zone.mode=", "Zone.default_zone=", "Zone.smart_zone=", "Zone.create", "Zone.delete"}
ZoneLockClearText ==
  <<"terminal", "dont-ask", ";", "clear", "zone", "lock", "vsan", Str(zone._vsan), ";",
    "no", "terminal", "dont-ask">>
ZoneCommitText == <<"zone", "commit", "vsan", Str(zone._vsan)>>
\* the switch reports the zone lock held
ZoneLockHeld == ~Contains(zdev.session, <<"none">>)
\* positions of the log holding the operation's own configuration command (not
\* a commit, not a lock-clear)
OwnDACmds ==
  {k \in DOMAIN log : log[k].kind = "config"
                      /\ log[k].cmd \notin {CommitText, LockClearText}}
OwnZoneCmds ==
  {k \in DOMAIN log : log[k].kind = "config"
                      /\ log[k].cmd \notin {ZoneCommitText, ZoneLockClearText}}
\* the answer at position k of the log is fatal for the operation in progress
FatalDA(k) ==
  /\ log[k].ans # None
  /\ op.name = "DeviceAlias.create" => ~SaysAlreadyPresent(log[k].ans)
FatalZone(k) ==
  /\ log[k].ans # None
  /\ log[k].ans.msg # <<>>
  /\ \A p \in ZoneAllowList : ~Contains(log[k].ans.msg, <<p>>)

\* C4: a Zone mutating call that reaches the shared send path (its first
\* transport call is the lock read) while the switch reports the zone lock
\* held ends at once in a CLIError carrying the lock details, and no config
\* command is sent.
C4_PreCheck ==
  [][(pc = "idle" /\ op'.name \in ZoneMutators /\ log' # <<>> /\ ZoneLockHeld) =>
       /\ pc' = "done"
       /\ result'.kind = "CLIError"
       /\ Contains(result'.command, zdev.session)
       /\ \A k \in DOMAIN log' : log'[k].kind # "config"]_vars

\* C4 witness: Zone.create refused by the pre-check
C4_Witness ==
  /\ pc = "done" /\ op.name = "Zone.create"
  /\ ZoneLockHeld
  /\ result.kind = "CLIError"
  /\ Len(log) = 1 /\ log[1].kind = "show"

C6_AsStated ==
  /\ (pc = "done" /\ op.name \in DAMutators) =>
       \A k \in OwnDACmds :
         FatalDA(k) => result = [kind |-> "CLIError", command |-> log[k].cmd,
                                 message |-> log[k].ans.msg]
  /\ (pc = "done" /\ op.name \in ZoneMutators) =>
       \A k \in OwnZoneCmds :
         FatalZone(k) => result = [kind |-> "CLIError", command |-> log[k].cmd,
                                   message |-> log[k].ans.msg]

\* C7: DeviceAlias.mode and, while the vsan resolves, Zone.mode accept a string
\* iff its lower-case form is "basic" or "enhanced"; an accepted value gives the
\* matching mode command ("no " before it for basic), a value not accepted
\* raises InvalidMode / InvalidZoneMode and nothing is sent to the transport.
C7_ModeSetters ==
  LET value == op.arg.val
      basic == Lower(value) = <<"b","a","s","i","c">>
      enhanced == Lower(value) = <<"e","n","h","a","n","c","e","d">>
      dacmd == <<"device-alias", "database", ";">>
                 \o (IF basic THEN <<"no">> ELSE <<>>)
                 \o <<"device-alias", "mode", "enhanced">>
      zonecmd == <<"terminal", "dont-ask", ";">>
                   \o (IF basic THEN <<"no">> ELSE <<>>)
                   \o <<"zone", "mode", "e","n","h","a","n","c","e","d", "vsan",
                        Str(zone._vsan), ";", "no", "terminal", "dont-ask">>
  IN /\ op.name = "DeviceAlias.mode=" =>
          IF basic \/ enhanced
            THEN /\ result.kind # "InvalidMode"
                 /\ log # <<>>
                 /\ log[1].kind = "config" /\ log[1].cmd = dacmd
                 /\ OwnDACmds = {1}
            ELSE /\ pc = "done" /\ result.kind = "InvalidMode"
                 /\ log = <<>>
     /\ (op.name = "Zone.mode=" /\ zdev.vsan_id # None) =>
          IF basic \/ enhanced
            THEN /\ result.kind # "InvalidZoneMode"
                 /\ pc = "zconfig" => loc.cmd = zonecmd
                 /\ \A k \in OwnZoneCmds : log[k].cmd = zonecmd
            ELSE /\ pc = "done" /\ result.kind = "InvalidZoneMode"
                 /\ log = <<>>

\* C7 witness: Zone.mode = "BASIC" accepted and its command sent
C7_Witness ==
  /\ pc = "done" /\ op.name = "Zone.mode="
  /\ op.arg.val = <<"B","A","S","I","C">>
  /\ OwnZoneCmds # {}
  /\ result.kind = "return"

\* C8: the distribute setter raises TypeError for a value that is not a bool
\* and then sends nothing (no show, no config); for True / False it sends exactly
\* one command, "device-alias distribute" / "no device-alias distribute", and
\* nothing else; a message in answer raises CLIError for that command.
C8_DistributeSetter ==
  (pc = "done" /\ op.name = "DeviceAlias.distribute=") =>
    IF op.arg.type # "bool"
      THEN /\ result.kind = "TypeError"
           /\ log = <<>>
      ELSE LET cmd == <<"device-alias", "database", ";">>
                        \o (IF op.arg.val THEN <<>> ELSE <<"no">>)
                        \o <<"device-alias", "distribute">>
           IN /\ Len(log) = 1
              /\ log[1].kind = "config" /\ log[1].cmd = cmd
              /\ IF log[1].ans = None
                   THEN result.kind = "return"
                   ELSE result = [kind |-> "CLIError", command |-> cmd,
                                  message |-> log[1].ans.msg]

\* C8 witness: the integer 1 is refused
C8_Witness ==
  /\ pc = "done" /\ op.name = "DeviceAlias.distribute="
  /\ op.arg = PyInt(1)
  /\ result.kind = "TypeError"

\* C9: while the vsan resolves, the default_zone setter hands the send path
\* "terminal dont-ask ; zone default-zone permit vsan <v> ; no terminal dont-ask"
\* for permit (any letter case), the same with "no zone default-zone" for deny,
\* and for any other value raises CLIError with nothing sent to the transport.
C9_DefaultZoneSetter ==
  LET value == op.arg.val
      permit == Lower(value) = <<"p","e","r","m","i","t">>
      deny == Lower(value) = <<"d","e","n","y">>
      cmd == <<"terminal", "dont-ask", ";">>
               \o (IF deny THEN <<"no">> ELSE <<>>)
               \o <<"zone", "default-zone", "p","e","r","m","i","t", "vsan",
                    Str(zone._vsan), ";", "no", "terminal", "dont-ask">>
  IN (op.name = "Zone.default_zone=" /\ zdev.vsan_id # None) =>
       IF permit \/ deny
         THEN /\ pc = "zconfig" => loc.cmd = cmd
              /\ \A k \in OwnZoneCmds : log[k].cmd = cmd
              /\ log # <<>>
              /\ (pc = "done" /\ OwnZoneCmds = {}) =>
                   (result.kind = "CLIError" /\ Len(log) = 1 /\ log[1].kind = "show")
         ELSE /\ pc = "done" /\ result.kind = "CLIError"
              /\ log = <<>>

\* C9 witness: "DENY" sent as the negated command
C9_Witness ==
  /\ pc = "done" /\ op.name = "Zone.default_zone="
  /\ op.arg.val = <<"D","E","N","Y">>
  /\ \E k \in OwnZoneCmds : Contains(log[k].cmd, <<"no", "zone", "default-zone">>)

\* C10: database returns None (not an empty mapping) when the device reports no
\* entries, the one-entry mapping for a single row returned as a dict, and for
\* a list of k rows with distinct names the k-entry mapping of exactly those
\* name -> pwwn pairs.
C10_Database ==
  (pc = "done" /\ op.name = "DeviceAlias.database") =>
    IF op.arg = None
      THEN result.value = None /\ result.value # PyDict(<<>>)
      ELSE LET row == op.arg.TABLE_device_alias_database.ROW_device_alias_database IN
           IF row.type = "dict"
             THEN /\ result.value.type = "dict"
                  /\ DOMAIN result.value.val = {row.val.dev_alias_name}
                  /\ result.value.val[row.val.dev_alias_name] = row.val.pwwn
             ELSE (\A a, b \in DOMAIN row.val :
                     a # b => row.val[a].dev_alias_name # row.val[b].dev_alias_name) =>
                    /\ result.value.type = "dict"
                    /\ Cardinality(DOMAIN result.value.val) = Len(row.val)
                    /\ \A a \in DOMAIN row.val :
                         /\ row.val[a].dev_alias_name \in DOMAIN result.value.val
                         /\ result.value.val[row.val[a].dev_alias_name] = row.val[a].pwwn

\* C10 witness: a list of two rows with distinct names gives a two-entry mapping
C10_Witness ==
  /\ pc = "done" /\ op.name = "DeviceAlias.database"
  /\ op.arg # None
  /\ op.arg.TABLE_device_alias_database.ROW_device_alias_database.type = "list"
  /\ op.arg.number_of_entries = 2
  /\ result.value.type = "dict"
  /\ Cardinality(DOMAIN result.value.val) = 2

\* what one step has added to the log of the call
Added == SubSeq(log', Len(log) + 1, Len(log'))
\* the step has raised CLIError for the commit command
CommitRaised(ans) ==
  /\ pc' = "done"
  /\ result' = [kind |-> "CLIError", command |-> CommitText,
                message |-> Strip(ans.msg)]
\* the commit step has returned to its caller, which goes on: whatever the call
\* ends with, it is not an error of the commit command
CommitReturned ==
  ~(pc' = "done" /\ result'.kind = "CLIError" /\ result'.command = CommitText)

\* C11: a commit step of DeviceAlias sends the commit command exactly once and
\* classifies the answer: None or "There are no pending changes" -> nothing more
\* is sent and the step returns; "Device-alias enhanced zone member present" ->
\* a lock-clear is sent iff the mode handed to the step is enhanced, then
\* CLIError for the commit; "Commit in progress. Check the status." -> one wait
\* of CommitWait, no second commit, no show, and the step returns; any other
\* message -> CLIError for the commit and no lock-clear.
C11_CommitProtocol ==
  [][pc = "commit" =>
       /\ Added # <<>>
       /\ Added[1].kind = "config" /\ Added[1].cmd = CommitText
       /\ LET ans == Added[1].ans
              rest == Tail(Added)
              says(p) == ans # None /\ Contains(ans.msg, <<p>>)
          IN IF ans = None \/ says("There are no pending changes")
               THEN rest = <<>> /\ CommitReturned
             ELSE IF says("Device-alias enhanced zone member present")
               THEN /\ IF Lower(loc.mode) = <<"e","n","h","a","n","c","e","d">>
                         THEN /\ Len(rest) = 1
                              /\ rest[1].kind = "config" /\ rest[1].cmd = LockClearText
                         ELSE rest = <<>>
                    /\ CommitRaised(ans)
             ELSE IF says("Commit in progress. Check the status.")
               THEN /\ rest = <<[kind |-> "sleep", cmd |-> <<"5">>, ans |-> None]>>
                    /\ CommitReturned
             ELSE rest = <<>> /\ CommitRaised(ans)]_vars

\* C11 witness: delete() accepted, the commit answered "Commit in progress":
\* one commit, one wait, and the call returns
C11_Witness ==
  /\ pc = "done" /\ op.name = "DeviceAlias.delete"
  /\ Cardinality(Sent(CommitText)) = 1
  /\ \E k \in Sent(CommitText) :
       /\ log[k].ans # None
       /\ Contains(log[k].ans.msg, <<"Commit in progress. Check the status.">>)
       /\ k + 1 = Len(log) /\ log[k + 1].kind = "sleep"
  /\ result.kind = "return"

\* C12 (as stated): the mode setter of DeviceAlias with a valid value sends
\* exactly one database-mode command; a commit follows it iff distribution reads
\* enabled, whether the device answered None or a message; and when it answered
\* a message, the call ends in the CLIError of the mode command with that
\* message, the commit having been sent before.
C12_AsStated ==
  (pc = "done" /\ op.name = "DeviceAlias.mode=" /\ result.kind # "InvalidMode") =>
    /\ OwnDACmds = {1}
    /\ Contains(log[1].cmd, <<"device-alias", "mode", "enhanced">>)
    /\ Cardinality(Sent(CommitText)) = (IF DistEnabled THEN 1 ELSE 0)
    /\ \A c \in Sent(CommitText) : c > 1
    /\ log[1].ans # None =>
         result = [kind |-> "CLIError", command |-> log[1].cmd,
                   message |-> log[1].ans.msg]

SingleCmdOps == {"DeviceAlias.delete", "DeviceAlias.rename", "DeviceAlias.clear_database"}
\* the answer to a commit lets the commit step return
CommitAnswerBenign(ans) ==
  \/ ans = None
  \/ Contains(ans.msg, <<"There are no pending changes">>)
  \/ /\ ~Contains(ans.msg, <<"Device-alias enhanced zone member present">>)
     /\ Contains(ans.msg, <<"Commit in progress. Check the status.">>)
\* the commands, lock-clears and commits of a finished single-command call,
\* without the clause on how a call with an accepted command ends
C13_Pattern ==
  /\ Cardinality(OwnDACmds) = 1
  /\ Cardinality(Sent(CommitText)) = (IF DistEnabled THEN 1 ELSE 0)
  /\ \A k \in OwnDACmds :
       /\ \A c \in Sent(CommitText) : k < c
       /\ IF log[k].ans = None
            THEN Sent(LockClearText) # {} =>
                   \E c \in Sent(CommitText) : \A j \in Sent(LockClearText) : c < j
            ELSE /\ result.kind = "CLIError"
                 /\ IF ModeEnhanced
                      THEN /\ k + 1 \in Sent(LockClearText)
                           /\ \A c \in Sent(CommitText) : k + 1 < c
                      ELSE Sent(LockClearText) = {}

\* C13 (as stated): delete, rename and clear_database send exactly one
\* configuration command; answered None, one commit follows iff distribution is
\* enabled and the call returns normally; answered with a message, a lock-clear
\* follows iff the mode read at the start is enhanced, then a commit iff
\* distribution is enabled, and CLIError is raised.
C13_AsStated ==
  (pc = "done" /\ op.name \in SingleCmdOps) =>
    /\ C13_Pattern
    /\ \A k \in OwnDACmds : log[k].ans = None => result.kind = "return"

\* C13 (amended): as stated, except that a call whose command was answered None
\* returns normally only if no commit was sent or the commit's answer lets the
\* commit step return; otherwise it raises the CLIError of the commit.
C13_SingleCommand ==
  (pc = "done" /\ op.name \in SingleCmdOps) =>
    /\ C13_Pattern
    /\ \A k \in OwnDACmds :
         log[k].ans = None =>
           IF \A c \in Sent(CommitText) : CommitAnswerBenign(log[c].ans)
             THEN result.kind = "return"
             ELSE /\ result.kind = "CLIError"
                  /\ result.command = CommitText

\* C13 witness: rename() rejected in enhanced mode with distribution enabled:
\* the command, the lock-clear, the commit, CLIError for the rename
C13_Witness ==
  /\ pc = "done" /\ op.name = "DeviceAlias.rename"
  /\ ModeEnhanced /\ DistEnabled
  /\ \E k \in OwnDACmds :
       /\ log[k].ans # None
       /\ k + 1 \in Sent(LockClearText)
       /\ \E c \in Sent(CommitText) : c > k + 1
       /\ result = [kind |-> "CLIError", command |-> log[k].cmd,
                    message |-> log[k].ans.msg]

ZoneStatusShows ==
  {k \in DOMAIN log : log[k].kind = "show"
                      /\ log[k].cmd = <<"show", "zone", "status", "vsan", Str(zone._vsan)>>}
\* the commit answers the send path is said to take as success
C14_StatedBenign(ans) ==
  \/ ans = None
  \/ Contains(ans.msg, <<"Commit operation initiated. Check zone status">>)
  \/ Contains(ans.msg, <<"No pending info found">>)
\* a finished Zone call whose command was accepted: the lock re-read, the
\* commit iff then locked, and the end of the call, the empty message being
\* among the benign commit answers or not
C14_After(empty_benign) ==
  (pc = "done" /\ op.name \in ZoneMutators) =>
    \A k \in OwnZoneCmds :
      ~FatalZone(k) =>
        /\ \E s \in ZoneStatusShows : s > k
        /\ Sent(ZoneCommitText) # {} <=> ZoneLockHeld
        /\ Cardinality(Sent(ZoneCommitText)) <= 1
        /\ \A c \in Sent(ZoneCommitText) : \E s \in ZoneStatusShows : k < s /\ s < c
        /\ Sent(ZoneLockClearText) = {}
        /\ IF \A c \in Sent(ZoneCommitText) :
                  \/ C14_StatedBenign(log[c].ans)
                  \/ empty_benign /\ log[c].ans.msg = <<>>
             THEN result.kind = "return"
             ELSE \E c \in Sent(ZoneCommitText) :
                    result = [kind |-> "CLIError", command |-> ZoneCommitText,
                              message |-> log[c].ans.msg]

\* C14 (as stated): after an accepted command the Zone send path re-reads the
\* lock state; 'zone commit vsan <v>' is sent iff the zone is then reported
\* locked; the call returns normally when the commit answer is None, 'Commit
\* operation initiated. Check zone status' or contains 'No pending info found',
\* and raises CLIError for any other commit answer.
C14_AsStated == C14_After(FALSE)

\* C14 (amended): as stated, and the call also returns normally when the
\* commit is answered with an empty message.
C14_CommitIfLocked == C14_After(TRUE)

\* C14 witness: Zone.create accepted, the zone then locked, the commit answered
\* "No pending info found": the call returns
C14_Witness ==
  /\ pc = "done" /\ op.name = "Zone.create"
  /\ ZoneLockHeld
  /\ \E c \in Sent(ZoneCommitText) :
       /\ log[c].ans # None
       /\ Contains(log[c].ans.msg, <<"No pending info found">>)
  /\ result.kind = "return"

\* C15: when the zone is not locked at the pre-check and the device answers
\* the command with a non-empty message, the message is success iff it contains
\* one of the seven allow-listed phrases: then no lock-clear is sent and the
\* call goes on to the commit-if-locked step; otherwise the zone mode is read,
\* a clear-zone-lock is sent iff that mode is enhanced, CLIError is raised and
\* no zone commit is sent.
C15_Classification ==
  (pc = "done" /\ op.name \in ZoneMutators) =>
    \A k \in OwnZoneCmds :
      (log[k].ans # None /\ log[k].ans.msg # <<>>) =>
        IF \E p \in {"Current zoning mode same as specified zoning mode",
                     "Set zoning mode command initiated. Check zone status",
                     "Enhanced zone session has been created",
                     "No zone policy change",
                     "Smart Zoning distribution initiated. check zone status",
                     "Smart-zoning is already enabled",
                     "Smart-zoning is already disabled"} :
             Contains(log[k].ans.msg, <<p>>)
          THEN /\ Sent(ZoneLockClearText) = {}
               /\ k + 1 \in DOMAIN log /\ log[k + 1].kind = "sleep"
               /\ k + 2 \in ZoneStatusShows
               /\ Sent(ZoneCommitText) # {} <=> ZoneLockHeld
               /\ ~(result.kind = "CLIError" /\ result.command = log[k].cmd)
          ELSE /\ k + 2 \in ZoneStatusShows
               /\ Sent(ZoneLockClearText) =
                    (IF zdev.mode = <<"e","n","h","a","n","c","e","d">>
                       THEN {k + 3} ELSE {})
               /\ result.kind = "CLIError"
               /\ Sent(ZoneCommitText) = {}

\* C15 witness: Zone.default_zone answered "No zone policy change": no
\* lock-clear, the lock re-read, the call returns
C15_Witness ==
  /\ pc = "done" /\ op.name = "Zone.default_zone="
  /\ \E k \in OwnZoneCmds :
       /\ log[k].ans # None
       /\ Contains(log[k].ans.msg, <<"No zone policy change">>)
       /\ k + 2 \in ZoneStatusShows
  /\ Sent(ZoneLockClearText) = {}
  /\ result.kind = "return"

ZoneOps ==
  ZoneMutators
  \cup {"Zone.__init__", "Zone.name", "Zone.vsan", "Zone.members", "Zone.mode",
        "Zone.default_zone", "Zone.smart_zone", "Zone.add_members", "Zone.locked",
        "Zone.clear_lock"}

\* C16 (as stated): every Zone operation, add_members included, invoked while
\* the vsan's id resolves to None ends in VsanNotPresent and sends neither a
\* show nor a config command.
C16_AsStated ==
  (pc = "done" /\ op.name \in ZoneOps /\ zdev.vsan_id = None) =>
    /\ result.kind = "VsanNotPresent"
    /\ log = <<>>

\* C17: DeviceAlias.clear_lock sends exactly one clear-session command and
\* nothing else, in every mode and lock state, and returns normally whatever
\* the device answers.
C17_ClearLock ==
  (pc = "done" /\ op.name = "DeviceAlias.clear_lock") =>
    /\ Len(log) = 1
    /\ log[1].kind = "config" /\ log[1].cmd = LockClearText
    /\ result.kind = "return"

\* C17 witness: clear_lock answered with a message while the database is locked
\* by a user in enhanced mode
C17_Witness ==
  /\ pc = "done" /\ op.name = "DeviceAlias.clear_lock"
  /\ "Locked_by_user" \in DOMAIN dev /\ ModeEnhanced
  /\ log[1].ans # None
  /\ result.kind = "return"

\* C18: while the vsan resolves, Zone.clear_lock sends exactly one 'clear zone
\* lock vsan <v>' command and returns normally when the device answers None,
\* an empty message, or a message containing 'Zone database not locked' or 'No
\* pending info found'; for any other message it raises CLIError.
C18_ZoneClearLock ==
  (pc = "done" /\ op.name = "Zone.clear_lock" /\ zdev.vsan_id # None) =>
    /\ Len(log) = 1
    /\ log[1].kind = "config" /\ log[1].cmd = ZoneLockClearText
    /\ LET ans == log[1].ans IN
       IF \/ ans = None
          \/ ans.msg = <<>>
          \/ Contains(ans.msg, <<"Zone database not locked">>)
          \/ Contains(ans.msg, <<"No pending info found">>)
         THEN result.kind = "return"
         ELSE result = [kind |-> "CLIError", command |-> ZoneLockClearText,
                        message |-> ans.msg]

\* C18 witness: the clear answered "Permission denied" raises CLIError
C18_Witness ==
  /\ pc = "done" /\ op.name = "Zone.clear_lock"
  /\ Len(log) = 1 /\ log[1].ans = [type |-> "dict", msg |-> <<"Permission denied">>]
  /\ result.kind = "CLIError"

\* positions of a sequence of log entries holding a given configuration command
Among(entries, cmd) ==
  {k \in DOMAIN entries : entries[k].kind = "config" /\ entries[k].cmd = cmd}

\* C19: within one call no configuration command of the operation is sent
\* twice, whatever the device answers, and no step of a call (a commit step in
\* particular, also after "commit in progress") adds more than one commit
\* command to what was sent.
C19_NoRetry ==
  [][/\ \A a, b \in (IF op.name \in DAMutators THEN OwnDACmds
                      ELSE IF op.name \in ZoneMutators THEN OwnZoneCmds ELSE {}) :
          a # b => log[a].cmd # log[b].cmd
     /\ Cardinality(Among(Added, CommitText)) <= 1
     /\ Cardinality(Among(Added, ZoneCommitText)) <= 1
     /\ pc = "commit" => Cardinality(Among(Added, CommitText)) = 1]_vars

\* C19 witness: create() of two entries, both rejected as already present, the
\* commit after the second answered "Commit in progress": two create commands,
\* each sent once
C19_Witness ==
  /\ CreateDone /\ Len(op.arg) = 2
  /\ Cardinality(CreatesSent) = 2
  /\ \A k \in CreatesSent : log[k].ans # None
  /\ \E c \in Sent(CommitText) :
       /\ log[c].ans # None
       /\ Contains(log[c].ans.msg, <<"Commit in progress. Check the status.">>)

\* C20 (as stated): add_members with a list holding a member that is not a
\* string raises InvalidZoneMemberType; with a list of strings it builds one
\* member command per member and raises nothing.
C20_AsStated ==
  (pc = "done" /\ op.name = "Zone.add_members") =>
    IF \E k \in DOMAIN op.arg.val : op.arg.val[k].type # "str"
      THEN result.kind = "InvalidZoneMemberType"
      ELSE result.kind = "return"

\* C21 (as stated): with another session taking and releasing the zone lock
\* between the transport calls, a Zone call never submits its configuration
\* command while the switch holds the zone lock: at the step that submits the
\* command the lock is free, as it was at the pre-check.
C21_AsStated ==
  [][(pc = "zconfig" /\ pc' # "zconfig") => ~ZoneLockHeld]_vars

DAOps ==
  DAMutators \cup {"DeviceAlias.mode", "DeviceAlias.distribute", "DeviceAlias.locked",
                   "DeviceAlias.database", "DeviceAlias.clear_lock"}

\* C22 (as stated): in every DeviceAlias operation other than clear_lock(), the
\* mode setter included, a lock-clear is sent only if the database mode the
\* device reports during the operation is enhanced.
C22_AsStated ==
  (op.name \in DAOps \ {"DeviceAlias.clear_lock"} /\ Sent(LockClearText) # {}) =>
    ModeEnhanced

\* the create commands of the call with their answers, in the order sent
CreateEntries ==
  SelectSeq(log, LAMBDA e : e.kind = "config"
                            /\ Contains(e.cmd, <<"device-alias", "name">>))
\* the answer to a create command is fatal
FatalCreateAnswer(ans) == ans # None /\ ~SaysAlreadyPresent(ans)

\* C23 (as stated): create sends one create command per entry in the caller's
\* order; an "already present" answer does not stop the batch; at the first
\* fatal answer the call raises, no later entry is sent and the batched commit
\* after the loop is not sent.
C23_AsStated ==
  CreateDone =>
    /\ Len(CreateEntries) <= Len(op.arg)
    /\ \A k \in DOMAIN CreateEntries : CreateEntries[k].cmd = CreateText(k)
    /\ IF \E k \in DOMAIN CreateEntries : FatalCreateAnswer(CreateEntries[k].ans)
         THEN /\ FatalCreateAnswer(CreateEntries[Len(CreateEntries)].ans)
              /\ result.kind = "CLIError"
              /\ \A k \in CreatesSent :
                   FatalCreateAnswer(log[k].ans) =>
                     Cardinality({c \in Sent(CommitText) : c > k})
                       = (IF DistEnabled THEN 1 ELSE 0)
         ELSE Len(CreateEntries) = Len(op.arg)

\* C24 (as stated): in create an "already present" answer causes no lock-clear,
\* in enhanced mode neither: every lock-clear of a create call directly follows
\* a fatal answer, of a create command or of a commit.
C24_AsStated ==
  (op.name = "DeviceAlias.create") =>
    \A j \in Sent(LockClearText) :
      /\ j > 1
      /\ log[j - 1].kind = "config"
      /\ \/ /\ j - 1 \in CreatesSent
            /\ FatalCreateAnswer(log[j - 1].ans)
         \/ /\ j - 1 \in Sent(CommitText)
            /\ log[j - 1].ans # None
            /\ Contains(log[j - 1].ans.msg, <<"Device-alias enhanced zone member present">>)

Getters ==
  {"DeviceAlias.mode", "DeviceAlias.distribute", "DeviceAlias.locked",
   "DeviceAlias.database", "Zone.name", "Zone.vsan", "Zone.members", "Zone.mode",
   "Zone.default_zone", "Zone.smart_zone", "Zone.locked"}

\* C25: a getter of DeviceAlias or Zone sends show commands only, never a
\* config command, in every state of the device; a call that returns has
\* queried the device, and the mode, distribute and locked values it returns
\* are those the device reports at that call, not those of an earlier call.
C25_Getters ==
  (pc = "done" /\ op.name \in Getters) =>
    /\ \A k \in DOMAIN log : log[k].kind = "show"
    /\ result.kind = "return" => log # <<>>
    /\ op.name \in DAOps =>
         /\ result.kind = "return"
         /\ Len(log) = 2
         /\ log[1].cmd = <<"show", "device-alias", "database">>
         /\ log[2].cmd = <<"show", "device-alias", "status">>
    /\ op.name = "DeviceAlias.mode" =>
         result.value = [type |-> "str", val |-> dev.database_mode]
    /\ op.name = "DeviceAlias.distribute" =>
         result.value = [type |-> "bool", val |-> DistEnabled]
    /\ op.name = "DeviceAlias.locked" =>
         result.value = [type |-> "bool", val |-> "Locked_by_user" \in DOMAIN dev]
    /\ (op.name = "Zone.mode" /\ result.kind = "return") =>
         result.value = [type |-> "str", val |-> zdev.mode]
    /\ (op.name = "Zone.locked" /\ result.kind = "return") =>
         result.value = [type |-> "bool", val |-> ZoneLockHeld]

\* C25 witness: the mode getter returns "enhanced" after the switch, basic at
\* the start, was changed to enhanced between two calls
C25_Witness ==
  /\ pc = "done" /\ op.name = "DeviceAlias.mode"
  /\ dev.database_mode = <<"e","n","h","a","n","c","e","d">>
  /\ result.value = [type |-> "str", val |-> <<"e","n","h","a","n","c","e","d">>]
  /\ Len(log) = 2
====
